---- MODULE Spec2Model ----
(***************************************************************************)
(* Model of the automaton core of rhyanki/automaton-developer:             *)
(*   src/src/Core/SymbolGroup.ts  (second listing, lines 208-561)          *)
(*   src/src/Core/NFA.ts          (second listing, lines 949-1826)         *)
(*   src/src/Core/RunnableNFA.ts                                           *)
(*                                                                         *)
(* Strings are sequences of characters.  A character is a TLA+ string;     *)
(* the two non-ASCII characters the source names are written "eps"         *)
(* (U+03B5, the letter epsilon) and "obx" (U+2423, the open box).  The     *)
(* empty symbol is the empty TLA+ string "".                               *)
(***************************************************************************)
EXTENDS Integers, Sequences, FiniteSets, TLC

(***************************************************************************)
(* Characters and their UTF-16 code units (String.charCodeAt).             *)
(***************************************************************************)
Chars == {" ", "-", "\\", "a", "b", "c", "d", "~", "eps", "obx"}

Code(c) ==
    CASE c = " "   -> 32
      [] c = "-"   -> 45
      [] c = "\\"  -> 92
      [] c = "a"   -> 97
      [] c = "b"   -> 98
      [] c = "c"   -> 99
      [] c = "d"   -> 100
      [] c = "~"   -> 126
      [] c = "eps" -> 949
      [] c = "obx" -> 9251
      [] OTHER     -> -1

\* String.fromCharCode restricted to the characters of the model.
FromCharCode(n) == CHOOSE c \in Chars : Code(c) = n

\* _allowedRanges: "A-Z", "a-z", "0-9", Cyrillic upper and lower, Greek upper and lower.
AllowedRanges ==
    << <<65, 90>>, <<97, 122>>, <<48, 57>>, <<1040, 1071>>, <<1072, 1103>>,
       <<913, 937>>, <<945, 969>> >>

\* new CharRange(a, b): the pair of code units, swapped into order.
CharRange(a, b) ==
    IF Code(b) < Code(a) THEN <<Code(b), Code(a)>> ELSE <<Code(a), Code(b)>>

\* CharRange.contains on code-unit pairs.
RangeContains(outer, inner) == outer[1] <= inner[1] /\ inner[2] <= outer[2]

\* The characters a CharRange iterates over.
RangeChars(r) == {c \in Chars : r[1] <= Code(c) /\ Code(c) <= r[2]}

\* Some allowed range contains the range r.
InAllowedRange(r) == \E i \in 1..Len(AllowedRanges) : RangeContains(AllowedRanges[i], r)

\* _fromSpecial restricted to the characters of the model.  The value is the
\* symbol; NoSpecial stands for Map.get returning undefined.
NoSpecial == "undefined"

FromSpecial(tok) ==
    CASE tok = <<"eps">>      -> ""
      [] tok = <<"~">>        -> ""
      [] tok = <<"obx">>      -> " "
      [] tok = <<"\\", "\\">> -> "\\"
      [] OTHER                -> NoSpecial

\* _toSpecial = _fromSpecial.flip(): later entries overwrite earlier ones.
ToSpecial(sym) ==
    CASE sym = ""   -> <<"~">>
      [] sym = " "  -> <<"obx">>
      [] sym = "\\" -> <<"\\", "\\">>
      [] OTHER      -> <<>>

\* _fromSpecial.has(symbol) for a one-character symbol.
IsSpecialKey(sym) == sym \in {"eps", "~", "obx"}

DropFirst(s, n) == SubSeq(s, n + 1, Len(s))

(***************************************************************************)
(* SymbolGroup constructor: the while loop over the remaining input.       *)
(***************************************************************************)
RECURSIVE ParseLoop(_, _)
ParseLoop(input, symbols) ==
    IF Len(input) = 0 THEN symbols
    ELSE IF input[1] = " "
    THEN ParseLoop(DropFirst(input, 1), symbols)
    ELSE IF Len(input) >= 3 /\ input[2] = "-"
    THEN LET range == CharRange(input[1], input[3])
         IN  ParseLoop(DropFirst(input, 3),
                       IF InAllowedRange(range) THEN symbols \cup RangeChars(range)
                                                ELSE symbols)
    ELSE LET match == IF input[1] = "\\" /\ Len(input) >= 2
                      THEN <<input[1], input[2]>> ELSE <<input[1]>>
             special == FromSpecial(match)
         IN  IF special # NoSpecial /\ special # ""
             THEN ParseLoop(DropFirst(input, Len(match)), symbols \cup {special})
             ELSE LET raw == IF Len(match) > 1 /\ match[1] = "\\"
                             THEN <<match[2]>> ELSE match
                  IN  ParseLoop(DropFirst(input, Len(raw)), symbols \cup {raw[1]})

\* new SymbolGroup(input) for a string input.
ParseString(input) ==
    IF input = <<>> \/ input = <<"~">> \/ input = <<"eps">> THEN {}
    ELSE IF Len(input) = 1 THEN {input[1]}
    ELSE ParseLoop(input, {})

(***************************************************************************)
(* SymbolGroup.toString                                                    *)
(***************************************************************************)
\* The symbols of a group in sorted order (Set.sort: code-unit order, "" first).
RECURSIVE SortedSymbols(_)
SortedSymbols(S) ==
    IF S = {} THEN <<>>
    ELSE LET m == CHOOSE x \in S : \A y \in S : Code(x) <= Code(y)
         IN  <<m>> \o SortedSymbols(S \ {m})

OutputForm(symbol, delimiter) ==
    IF ToSpecial(symbol) # <<>> THEN ToSpecial(symbol)
    ELSE IF <<symbol>> = delimiter \/ IsSpecialKey(symbol) THEN <<"\\", symbol>>
    ELSE <<symbol>>

RECURSIVE OutputRange(_, _, _)
OutputRange(lo, hi, delimiter) ==
    IF lo > hi THEN <<>>
    ELSE <<OutputForm(FromCharCode(lo), delimiter)>> \o OutputRange(lo + 1, hi, delimiter)

\* finishRange: st = [blocks, rs, re, ar] with rs = "" when no range is open.
RangeBlocks(lo, hi, delimiter) ==
    IF 3 < (hi - lo) + ((hi - lo) - 1) * Len(delimiter)
    THEN << <<FromCharCode(lo), "-", FromCharCode(hi)>> >>
    ELSE OutputRange(lo, hi, delimiter)

FinishRange(st, delimiter) ==
    IF st.rs = "" THEN st
    ELSE [st EXCEPT !.blocks = @ \o RangeBlocks(Code(st.rs), Code(st.re), delimiter),
                    !.rs = "", !.re = ""]

\* The index of the first allowed range that contains the symbol, 0 if none.
AllowedRangeOf(symbol) ==
    IF symbol = "" \/ ~InAllowedRange(<<Code(symbol), Code(symbol)>>) THEN 0
    ELSE CHOOSE i \in 1..Len(AllowedRanges) :
            /\ RangeContains(AllowedRanges[i], <<Code(symbol), Code(symbol)>>)
            /\ \A j \in 1..(i - 1) :
                  ~RangeContains(AllowedRanges[j], <<Code(symbol), Code(symbol)>>)

\* The body of the loop once any open range has been finished.
StartBlock(fin, symbol, delimiter) ==
    IF AllowedRangeOf(symbol) # 0
    THEN [fin EXCEPT !.rs = symbol, !.re = symbol, !.ar = AllowedRangeOf(symbol)]
    ELSE [fin EXCEPT !.blocks = Append(@, OutputForm(symbol, delimiter))]

RECURSIVE ToStringLoop(_, _, _, _)
ToStringLoop(rest, st, delimiter, includeEmpty) ==
    IF rest = <<>> THEN FinishRange(st, delimiter).blocks
    ELSE IF ~includeEmpty /\ Head(rest) = ""
    THEN ToStringLoop(Tail(rest), st, delimiter, includeEmpty)
    ELSE IF st.rs # "" /\ Code(Head(rest)) - Code(st.re) = 1
            /\ RangeContains(AllowedRanges[st.ar], <<Code(Head(rest)), Code(Head(rest))>>)
    THEN ToStringLoop(Tail(rest), [st EXCEPT !.re = Head(rest)], delimiter, includeEmpty)
    ELSE ToStringLoop(Tail(rest), StartBlock(FinishRange(st, delimiter), Head(rest), delimiter),
                      delimiter, includeEmpty)

RECURSIVE Join(_, _)
Join(blocks, delimiter) ==
    IF blocks = <<>> THEN <<>>
    ELSE IF Len(blocks) = 1 THEN blocks[1]
    ELSE blocks[1] \o delimiter \o Join(Tail(blocks), delimiter)

GroupToString(symbols, delimiter, includeEmpty) ==
    Join(ToStringLoop(SortedSymbols(symbols),
                      [blocks |-> <<>>, rs |-> "", re |-> "", ar |-> 1],
                      delimiter, includeEmpty),
         delimiter)

\* this._normalized = this.toString(" ")
Normalized(symbols) == GroupToString(symbols, <<" ">>, FALSE)

\* SymbolGroup.equals
GroupEquals(a, b) == Normalized(a) = Normalized(b)

(***************************************************************************)
(* SymbolGroupInput: a SymbolGroup, a string, or undefined.  A SymbolGroup *)
(* is its set of symbols (_normalized is a function of it).                *)
(***************************************************************************)
GroupInput(symbols) == [kind |-> "group", symbols |-> symbols, text |-> <<>>]
StringInput(text)   == [kind |-> "string", symbols |-> {}, text |-> text]
UndefinedInput      == [kind |-> "undefined", symbols |-> {}, text |-> <<>>]

\* new SymbolGroup(input)
NewSymbolGroup(input) ==
    CASE input.kind = "undefined" -> {}
      [] input.kind = "group"     -> input.symbols
      [] OTHER                    -> ParseString(input.text)

\* static SymbolGroup.merge: the string the loop builds, then the constructor.
MergePiece(g) ==
    CASE g.kind = "group" -> <<" ">> \o Normalized(g.symbols)
      [] g.kind = "string" /\ g.text # <<>> -> <<" ">> \o g.text
      [] OTHER -> <<>>

RECURSIVE MergeInput(_)
MergeInput(groups) ==
    IF groups = <<>> THEN <<>> ELSE MergePiece(Head(groups)) \o MergeInput(Tail(groups))

StaticMerge(groups) == ParseString(MergeInput(groups))

\* SymbolGroup.merge(other): the receiver when the merge equals it.
Merged(this, merged) == IF GroupEquals(this, merged) THEN this ELSE merged

GroupMerge(this, other) == Merged(this, StaticMerge(<<GroupInput(this), other>>))

\* static SymbolGroup.shareAny over a sequence of groups.
GroupsShareAny(groups) ==
    \E i, j \in 1..Len(groups) : i < j /\ groups[i] \cap groups[j] # {}

\* SymbolGroup.subtract is called by NFA.complete but is not part of
\* SymbolGroup.ts; it is the set difference the design document describes.
GroupSubtract(this, other) == this \ other

(***************************************************************************)
(* The automaton object (a RunnableNFA instance): a record of its fields.  *)
(* _alphabet === undefined is hasSetAlphabet = FALSE; an absent key of     *)
(* _cache is the matching has... flag being FALSE (isDFA = "undefined").   *)
(***************************************************************************)
EmptyCache ==
    [hasGenerating |-> FALSE, generatingStates |-> {},
     hasReachable |-> FALSE, reachableStates |-> {}, reachableOwned |-> FALSE,
     isDFA |-> "undefined",
     hasMinimal |-> FALSE, minimalAlphabet |-> {}]

NoTransitions == [t \in {} |-> {}]

\* A sequence enumerating the set S in ascending order.
RECURSIVE Ascending(_)
Ascending(S) ==
    IF S = {} THEN <<>>
    ELSE <<CHOOSE x \in S : \A y \in S : x <= y>>
             \o Ascending(S \ {CHOOSE x \in S : \A y \in S : x <= y})

\* NFA.state
State(o, s) == IF s \in o.states THEN s ELSE 0

\* NFA.transitionsFrom
TransitionsFrom(o, origin) ==
    IF State(o, origin) \in DOMAIN o.transitions
    THEN o.transitions[State(o, origin)] ELSE NoTransitions

\* NFA.hasTransition (without the optional symbol)
HasTransition(o, origin, target) ==
    /\ State(o, origin) # 0
    /\ State(o, target) # 0
    /\ State(o, origin) \in DOMAIN o.transitions
    /\ State(o, target) \in DOMAIN o.transitions[State(o, origin)]

\* NFA.symbols
Symbols(o, origin, target) ==
    IF State(o, origin) \in DOMAIN o.transitions
       /\ State(o, target) \in DOMAIN o.transitions[State(o, origin)]
    THEN o.transitions[State(o, origin)][State(o, target)]
    ELSE {}

\* NFA.isAccept, NFA.isStart, NFA.name
IsAccept(o, s) == State(o, s) \in o.accept
IsStart(o, s) == State(o, s) # 0 /\ o.start = State(o, s)
Name(o, s) == IF s \in DOMAIN o.names THEN o.names[s] ELSE ""

\* The groups on the edges leaving origin, as a sequence.
GroupsOf(tf, targets) == [i \in 1..Len(targets) |-> GroupInput(tf[targets[i]])]

GroupsFrom(o, origin) ==
    GroupsOf(TransitionsFrom(o, origin), Ascending(DOMAIN TransitionsFrom(o, origin)))

\* NFA.symbolsFrom
SymbolsFrom(o, origin) == StaticMerge(GroupsFrom(o, origin))

RECURSIVE AllGroups(_, _)
AllGroups(o, origins) ==
    IF origins = <<>> THEN <<>>
    ELSE GroupsFrom(o, Head(origins)) \o AllGroups(o, Tail(origins))

(***************************************************************************)
(* NFA._explore: the depth-first search, its call stack kept as the        *)
(* sequence of the states still to enter.                                  *)
(***************************************************************************)
Neighbours(o, state, backwards) ==
    Ascending(IF backwards
              THEN {origin \in o.states : HasTransition(o, origin, state)}
              ELSE DOMAIN TransitionsFrom(o, state))

RECURSIVE Explore(_, _, _, _)
Explore(o, stack, visited, backwards) ==
    IF stack = <<>> THEN visited
    ELSE IF Head(stack) \in visited THEN Explore(o, Tail(stack), visited, backwards)
    ELSE Explore(o, Neighbours(o, Head(stack), backwards) \o Tail(stack),
                 visited \cup {Head(stack)}, backwards)

(***************************************************************************)
(* The cached getters.  XValue is what the getter returns; WithX is the    *)
(* object after the getter has stored its result in _cache.                *)
(***************************************************************************)
GeneratingValue(o) ==
    IF o.cache.hasGenerating THEN o.cache.generatingStates
    ELSE Explore(o, Ascending(o.accept), {}, TRUE)

WithGenerating(o) ==
    [o EXCEPT !.cache.hasGenerating = TRUE, !.cache.generatingStates = GeneratingValue(o)]

ReachableValue(o) ==
    IF o.cache.hasReachable THEN o.cache.reachableStates
    ELSE IF o.start # 0 THEN Explore(o, <<o.start>>, {}, FALSE) ELSE {}

\* The getter discards the value asImmutable() returns.  For an empty set
\* that value is the library's shared empty set and the cached object
\* itself stays mutable (the library behaviour noted in NFA.immutable);
\* reachableOwned records that the cached set still takes writes in place.
Reached(o, value) ==
    [o EXCEPT !.cache.hasReachable = TRUE,
              !.cache.reachableStates = value,
              !.cache.reachableOwned = IF o.cache.hasReachable THEN @ ELSE value = {}]

WithReachable(o) == Reached(o, ReachableValue(o))

\* NFA.isDFA
DeterministicAt(groups) ==
    /\ \A i \in 1..Len(groups) : "" \notin groups[i].symbols
    /\ ~GroupsShareAny([i \in 1..Len(groups) |-> groups[i].symbols])

ComputeIsDFA(o) == \A origin \in o.states : DeterministicAt(GroupsFrom(o, origin))

IsDFAValue(o) ==
    IF o.cache.isDFA = "undefined" THEN ComputeIsDFA(o) ELSE o.cache.isDFA = "true"

WithIsDFA(o) ==
    [o EXCEPT !.cache.isDFA = IF IsDFAValue(o) THEN "true" ELSE "false"]

\* NFA.minimalAlphabet(include)
CachedMinimal(o) ==
    IF o.cache.hasMinimal THEN o.cache.minimalAlphabet
    ELSE StaticMerge(AllGroups(o, Ascending(o.states)))

WithMinimal(o) ==
    [o EXCEPT !.cache.hasMinimal = TRUE, !.cache.minimalAlphabet = CachedMinimal(o)]

MinimalAlphabet(o, include) == GroupMerge(CachedMinimal(o), include)

\* NFA.alphabet (the getter); it fills the cache only when no alphabet is set.
Alphabet(o) == IF o.hasSetAlphabet THEN o.alphabet ELSE MinimalAlphabet(o, UndefinedInput)
WithAlphabet(o) == IF o.hasSetAlphabet THEN o ELSE WithMinimal(o)

\* NFA.generating, NFA.reachable
Generating(o, s) == State(o, s) \in GeneratingValue(o)
Reachable(o, s) == State(o, s) \in ReachableValue(o)

\* NFA.isTrimmed; reachableStates is read first, generatingStates only when
\* no state is unreachable.
TrimmedBy(o, reachable, generating) ==
    /\ Cardinality(o.states) - Cardinality(reachable) = 0
    /\ (Cardinality(o.states) - Cardinality(generating)
          - (IF State(o, o.start) \in generating THEN 0 ELSE 1)) = 0

IsTrimmed(o) == TrimmedBy(o, ReachableValue(o), GeneratingValue(o))

TrimmedRead(r) ==
    IF Cardinality(r.states) - Cardinality(r.cache.reachableStates) # 0
    THEN r ELSE WithGenerating(r)

WithIsTrimmed(o) == TrimmedRead(WithReachable(o))

(***************************************************************************)
(* Copy-on-write.  A mutator called on receiver `this` works on            *)
(* nfa = this.mutable(keepCache): the receiver itself when it is mutable,  *)
(* a mutable copy otherwise.  Its outcome is a record: recv is the         *)
(* receiver afterwards, ret the returned object, same tells whether the    *)
(* returned reference is the receiver, threw whether the call ended in an  *)
(* exception (the call stack overflowing).                                 *)
(***************************************************************************)
\* NFA.mutable and NFA.mutableCopy
Mutable(o, keepCache) ==
    [o EXCEPT !.mutable = TRUE, !.cache = IF keepCache THEN @ ELSE EmptyCache]

\* NFA.immutable, applied when the receiver was immutable
Immutable(this, nfa) ==
    [nfa EXCEPT !.mutable = this.mutable,
                !.statesOwned = IF this.mutable THEN @ ELSE FALSE]

\* "return this"
ReturnThis(this) == [recv |-> this, ret |-> this, same |-> TRUE, threw |-> FALSE]

\* "if (!this._mutable) nfa.immutable(); return nfa"
Return(this, nfa) ==
    [recv |-> IF this.mutable THEN Immutable(this, nfa) ELSE this,
     ret |-> Immutable(this, nfa), same |-> this.mutable, threw |-> FALSE]

\* An exception leaves a mutable receiver as far as the call got.
Throw(this, nfa) ==
    [recv |-> IF this.mutable THEN nfa ELSE this,
     ret |-> IF this.mutable THEN nfa ELSE this, same |-> TRUE, threw |-> TRUE]

\* A variant of asMutable that hands back the set it was called on.
AsMutableInPlace(o) == o.statesRef

\* this._states.asMutable(): the set itself when this automaton owns it, a
\* new set object otherwise.  statesRef names the object that _states
\* refers to; a copy of an automaton starts with the reference of the
\* original.
AsMutableRef(o) == IF o.statesOwned THEN o.statesRef ELSE o.statesRef + 1

\* NFA.addState; id is the value of NFA.nextID.
AddState(o, name, id) ==
    Return(o, [Mutable(o, TRUE) EXCEPT
                  !.states = @ \cup {id},
                  !.statesRef = AsMutableRef(o),
                  !.statesOwned = TRUE,
                  !.names = (id :> name) @@ @,
                  !.transitions = (id :> NoTransitions) @@ @])

\* A variant of CarryIsDFA that carries a cached false over as well.
CarryAnyIsDFA(cache) == [EmptyCache EXCEPT !.isDFA = cache.isDFA]

CarryIsDFA(cache) == [EmptyCache EXCEPT !.isDFA = IF cache.isDFA = "true" THEN "true" ELSE @]

\* NFA.removeTransition
RemoveTransition(o, origin, target) ==
    IF ~HasTransition(o, State(o, origin), State(o, target)) THEN ReturnThis(o)
    ELSE Return(o, [o EXCEPT
             !.mutable = TRUE,
             !.transitions[origin] = [t \in (DOMAIN @) \ {target} |-> @[t]],
             !.cache = CarryIsDFA(o.cache)])

\* A variant of the loop of NFA.removeState that leaves the edges into the
\* removed state in place.
KeepingTarget(tf, state) == tf

\* The loop of NFA.removeState over the origins that are left.
WithoutTarget(tf, state) == [t \in (DOMAIN tf) \ {state} |-> tf[t]]

\* NFA.removeState
RemoveState(o, state) ==
    IF State(o, state) = 0 THEN ReturnThis(o)
    ELSE Return(o, [o EXCEPT
             !.mutable = TRUE,
             !.transitions = [origin \in (DOMAIN @) \ {state} |-> WithoutTarget(@[origin], state)],
             !.states = @ \ {state},
             !.statesRef = AsMutableRef(o),
             !.statesOwned = TRUE,
             !.cache = CarryIsDFA(o.cache)])

\* A variant of NFA.setAccept that keeps the whole cache (mutable(true)).
SetAcceptKeepingCache(o, state, accept) ==
    IF State(o, state) = 0 \/ IsAccept(o, state) = accept THEN ReturnThis(o)
    ELSE Return(o, [Mutable(o, TRUE) EXCEPT
                       !.accept = IF accept THEN @ \cup {state} ELSE @ \ {state}])

\* NFA.setAccept
SetAccept(o, state, accept) ==
    IF State(o, state) = 0 \/ IsAccept(o, state) = accept THEN ReturnThis(o)
    ELSE Return(o, [o EXCEPT
             !.mutable = TRUE,
             !.accept = IF accept THEN @ \cup {state} ELSE @ \ {state},
             !.cache = [EmptyCache EXCEPT
                           !.hasReachable = o.cache.hasReachable,
                           !.reachableStates = o.cache.reachableStates,
                           !.reachableOwned = o.cache.reachableOwned,
                           !.isDFA = o.cache.isDFA]])

\* NFA.toggleAccept
ToggleAccept(o, state) == SetAccept(o, state, ~IsAccept(o, state))

\* NFA.setAlphabet
SetAlphabetTo(this, newAlphabet) ==
    IF this.hasSetAlphabet /\ GroupEquals(this.alphabet, newAlphabet) THEN ReturnThis(this)
    ELSE Return(this, [Mutable(this, TRUE) EXCEPT
                          !.hasSetAlphabet = TRUE, !.alphabet = newAlphabet])

SetAlphabetFrom(this, alphabet) ==
    SetAlphabetTo(this, GroupMerge(this.cache.minimalAlphabet, alphabet))

SetAlphabet(o, alphabet) == SetAlphabetFrom(WithMinimal(o), alphabet)

\* NFA.unsetAlphabet
UnsetAlphabet(o) ==
    IF ~o.hasSetAlphabet THEN ReturnThis(o)
    ELSE Return(o, [Mutable(o, TRUE) EXCEPT !.hasSetAlphabet = FALSE, !.alphabet = {}])

\* NFA.setName
SetName(o, state, name) ==
    IF State(o, state) = 0 \/ Name(o, State(o, state)) = name THEN ReturnThis(o)
    ELSE Return(o, [Mutable(o, TRUE) EXCEPT !.names = (state :> name) @@ @])

\* NFA.setStart
SetStart(o, state) ==
    IF IsStart(o, State(o, state)) THEN ReturnThis(o)
    ELSE Return(o, [o EXCEPT
             !.mutable = TRUE,
             !.start = State(o, state),
             !.cache = [EmptyCache EXCEPT
                           !.hasGenerating = o.cache.hasGenerating,
                           !.generatingStates = o.cache.generatingStates,
                           !.isDFA = o.cache.isDFA]])

\* NFA.setTransition, after origin, target and symbols have been normalised.
CarryGraph(cache) ==
    [EmptyCache EXCEPT
        !.hasGenerating = cache.hasGenerating,
        !.generatingStates = cache.generatingStates,
        !.hasReachable = cache.hasReachable,
        !.reachableStates = cache.reachableStates,
        !.reachableOwned = cache.reachableOwned]

SetSymbols(o, origin, target, symbols) ==
    IF origin = 0 \/ target = 0 THEN ReturnThis(o)
    ELSE IF HasTransition(o, origin, target)
            /\ GroupEquals(symbols, Symbols(o, origin, target))
    THEN ReturnThis(o)
    ELSE Return(o, [o EXCEPT
             !.mutable = TRUE,
             !.alphabet = IF o.hasSetAlphabet THEN GroupMerge(@, GroupInput(symbols)) ELSE @,
             !.transitions[origin] = (target :> symbols) @@ @,
             !.cache = IF HasTransition(o, origin, target)
                       THEN CarryGraph(o.cache) ELSE EmptyCache])

\* A variant of NFA.setTransition that adds the symbols to the group of an
\* existing edge instead of replacing it.
NFASetTransitionMerging(o, origin, target, symbols) ==
    SetSymbols(o, State(o, origin), State(o, target),
               NewSymbolGroup(symbols) \cup Symbols(o, origin, target))

\* NFA.setTransition
NFASetTransition(o, origin, target, symbols) ==
    SetSymbols(o, State(o, origin), State(o, target), NewSymbolGroup(symbols))

(***************************************************************************)
(* RunnableNFA: the simulation state and the overridden setTransition.     *)
(***************************************************************************)
IsRunning(o) == o.numRead # -1
IsCurrentState(o, s) == State(o, s) \in o.current

EmptyTargets(o, origin) ==
    {t \in DOMAIN TransitionsFrom(o, origin) : "" \in TransitionsFrom(o, origin)[t]}

Followed(o, origin, targets) ==
    [o EXCEPT !.current = @ \cup targets,
              !.followedTransitions = [e \in {origin} \X targets |-> o.numRead] @@ @]

Deeper(targets, depth) == [i \in 1..Len(targets) |-> <<targets[i], depth>>]

\* RunnableNFA._followEmptyTransitions keeps no record of the states it has
\* entered: it recurses into every target of an empty transition.  stack
\* holds the pending calls with their depth; a call deeper than the number
\* of states is on a cycle of empty transitions, so the recursion has no
\* end and the call stack overflows.
RECURSIVE Follow(_, _)
Follow(o, stack) ==
    IF stack = <<>> THEN [obj |-> o, overflow |-> FALSE]
    ELSE IF Head(stack)[2] > Cardinality(o.states) THEN [obj |-> o, overflow |-> TRUE]
    ELSE Follow(Followed(o, Head(stack)[1], EmptyTargets(o, Head(stack)[1])),
                Deeper(Ascending(EmptyTargets(o, Head(stack)[1])), Head(stack)[2] + 1)
                  \o Tail(stack))

FollowEmptyTransitions(o, onlyFrom) ==
    IF ~IsRunning(o) \/ ~o.mutable THEN [obj |-> o, overflow |-> FALSE]
    ELSE Follow(o, Deeper(IF onlyFrom = 0 THEN Ascending(o.current) ELSE <<onlyFrom>>, 0))

\* The end of a method that has called _followEmptyTransitions on nfa.
AfterFollow(this, f) == IF f.overflow THEN Throw(this, f.obj) ELSE Return(this, f.obj)

\* RunnableNFA.setTransition without its running branch.
SetTransitionEndUnfollowed(r, target, follow) == r

\* RunnableNFA.setTransition
SetTransitionEnd(r, target, follow) ==
    IF ~follow THEN r
    ELSE AfterFollow(r.recv,
                     FollowEmptyTransitions(
                         [r.ret EXCEPT !.mutable = TRUE, !.current = @ \cup {target}],
                         target))

SetTransition(o, origin, target, symbols) ==
    SetTransitionEnd(NFASetTransition(o, origin, target, symbols), target,
                     IsRunning(o) /\ IsCurrentState(o, origin)
                       /\ "" \in NewSymbolGroup(symbols))

\* NFA.setTransitionTarget
Retargeted(this, r, isDFA) ==
    IF r.threw THEN Throw(this, r.ret)
    ELSE Return(this, [r.ret EXCEPT !.cache.isDFA = IF isDFA = "true" THEN "true" ELSE @])

SetTransitionTarget(o, origin, oldTarget, newTarget) ==
    IF \/ State(o, origin) = 0 \/ State(o, oldTarget) = 0 \/ State(o, newTarget) = 0
       \/ oldTarget = newTarget \/ ~HasTransition(o, origin, oldTarget)
    THEN ReturnThis(o)
    ELSE Retargeted(o,
             SetTransition(RemoveTransition(Mutable(o, FALSE), origin, oldTarget).ret,
                           origin, newTarget,
                           GroupInput(GroupMerge(Symbols(o, origin, oldTarget),
                                                 GroupInput(Symbols(o, origin, newTarget))))),
             o.cache.isDFA)

(***************************************************************************)
(* NFA.trim.  order is the order in which the loop visits the states.      *)
(***************************************************************************)
\* NFA.trim with the test of the loop negated.
TrimStepInverted(n, state) ==
    IF ~(State(n, state) \in n.cache.generatingStates
         /\ State(n, state) \in n.cache.reachableStates)
    THEN n
    ELSE IF IsStart(n, state) THEN n
    ELSE RemoveState(n, state).ret

TrimStep(n, state) ==
    IF State(n, state) \in n.cache.generatingStates
       /\ State(n, state) \in n.cache.reachableStates
    THEN n
    ELSE IF IsStart(n, state) THEN n
    ELSE RemoveState(n, state).ret

TrimState(nfa, state) ==
    TrimStep(IF Generating(nfa, state) THEN WithReachable(WithGenerating(nfa))
             ELSE WithGenerating(nfa), state)

RECURSIVE TrimLoop(_, _)
TrimLoop(nfa, order) ==
    IF order = <<>> THEN nfa
    ELSE TrimLoop(TrimState(nfa, Head(order)), Tail(order))

TrimFrom(this, trimmed, order) ==
    IF trimmed THEN ReturnThis(this)
    ELSE Return(this, TrimLoop(Mutable(this, TRUE), order))

Trim(o, order) == TrimFrom(WithIsTrimmed(o), IsTrimmed(o), order)

(***************************************************************************)
(* NFA.complete.  order is the order in which the loops visit the states,  *)
(* id the value of NFA.nextID.                                             *)
(***************************************************************************)
\* The first loop of NFA.complete with the test "!nfa.generating(state)"
\* lacking its negation.
RECURSIVE LastGenerating(_, _, _)
LastGenerating(nfa, order, found) ==
    IF order = <<>> THEN found
    ELSE LastGenerating(nfa, Tail(order),
             IF State(nfa, Head(order)) \in nfa.cache.generatingStates
             THEN Head(order) ELSE found)

RECURSIVE LastNonGenerating(_, _, _)
LastNonGenerating(nfa, order, found) ==
    IF order = <<>> THEN found
    ELSE LastNonGenerating(nfa, Tail(order),
             IF State(nfa, Head(order)) \in nfa.cache.generatingStates
             THEN found ELSE Head(order))

NonGenerating(nfa, order) ==
    IF Cardinality(nfa.cache.generatingStates) # Cardinality(nfa.states)
    THEN LastNonGenerating(nfa, order, 0) ELSE 0

CompleteAddsState(o) == NonGenerating(WithGenerating(o), Ascending(o.states)) = 0

CompleteEdge(n, modified, origin, nongenerating, remainingSymbols) ==
    IF Cardinality(remainingSymbols) # 0
    THEN [nfa |-> SetTransition(n, origin, nongenerating, GroupInput(remainingSymbols)).ret,
          modified |-> TRUE]
    ELSE [nfa |-> n, modified |-> modified]

CompleteState(st, origin, nongenerating) ==
    CompleteEdge(WithAlphabet(st.nfa), st.modified, origin, nongenerating,
                 GroupSubtract(Alphabet(st.nfa), SymbolsFrom(st.nfa, origin)))

RECURSIVE CompleteLoop(_, _, _)
CompleteLoop(st, order, nongenerating) ==
    IF order = <<>> THEN st
    ELSE CompleteLoop(CompleteState(st, Head(order), nongenerating),
                      Tail(order), nongenerating)

\* The cached set of reachable states takes the new member in place when it
\* is still mutable, and the receiver's cache holds the same set object.
AddReachable(o, nongenerating) ==
    IF o.cache.hasReachable
    THEN [o EXCEPT !.cache.reachableStates = @ \cup {nongenerating}] ELSE o

CompleteEnd(this, done, nongenerating) ==
    IF ~done.modified
    THEN ReturnThis(IF this.mutable THEN done.nfa ELSE this)
    ELSE Return(IF ~this.mutable /\ done.nfa.cache.hasReachable
                   /\ done.nfa.cache.reachableOwned
                THEN AddReachable(this, nongenerating) ELSE this,
                AddReachable(done.nfa, nongenerating))

CompleteWith(this, nfa, order, found, id) ==
    CompleteEnd(this,
                CompleteLoop([nfa |-> IF found = 0 THEN AddState(nfa, "Reject", id).ret ELSE nfa,
                              modified |-> FALSE],
                             IF found = 0 THEN Append(order, id) ELSE order,
                             IF found = 0 THEN id ELSE found),
                IF found = 0 THEN id ELSE found)

CompleteFrom(this, nfa, order, id) ==
    CompleteWith(this, nfa, order, NonGenerating(nfa, order), id)

Complete(o, order, id) == CompleteFrom(o, WithGenerating(Mutable(o, TRUE)), order, id)

(***************************************************************************)
(* RunnableNFA: the simulation.  Input strings are sequences of symbols.   *)
(***************************************************************************)
\* sets.shareAny on two sets
ShareAny(a, b) == a \cap b # {}

\* RunnableNFA.result without the test of the generating states.
ResultWithoutGenerating(o) ==
    IF ~IsRunning(o) THEN 0
    ELSE IF ShareAny(o.current, o.accept) THEN 1
    ELSE -1

\* RunnableNFA.result; the generating states are read (and cached) only
\* when no current state is accepting.
ResultValue(o) ==
    IF ~IsRunning(o) THEN 0
    ELSE IF ShareAny(o.current, o.accept) THEN 1
    ELSE IF ShareAny(o.current, GeneratingValue(o)) THEN 0
    ELSE -1

WithResult(o) ==
    IF IsRunning(o) /\ ~ShareAny(o.current, o.accept) THEN WithGenerating(o) ELSE o

NoFollowed == [e \in {} |-> 0]

\* RunnableNFA.reset
Reset(o, hasInput, input) ==
    AfterFollow(o, FollowEmptyTransitions(
        [Mutable(o, TRUE) EXCEPT
            !.numRead = 0,
            !.remainingInput = IF hasInput THEN input ELSE @,
            !.followedTransitions = NoFollowed,
            !.current = {o.start}], 0))

\* RunnableNFA.step: the transitions followed on the next symbol.
StepEdges(nfa, symbol) ==
    UNION {{<<origin, target>> :
              target \in {t \in DOMAIN TransitionsFrom(nfa, origin) :
                            symbol \in TransitionsFrom(nfa, origin)[t]}} :
           origin \in nfa.current}

Consumed(nfa, edges) ==
    [nfa EXCEPT !.remainingInput = Tail(@),
                !.numRead = @ + 1,
                !.followedTransitions = [e \in edges |-> nfa.numRead + 1] @@ @,
                !.current = {e[2] : e \in edges}]

Step(o) ==
    IF ~IsRunning(o) THEN Reset(o, FALSE, <<>>)
    ELSE IF o.remainingInput = <<>> THEN ReturnThis(o)
    ELSE AfterFollow(o, FollowEmptyTransitions(
             Consumed(Mutable(o, TRUE), StepEdges(o, Head(o.remainingInput))), 0))

\* RunnableNFA.setInput and RunnableNFA.addInput
SetInput(o, input) ==
    IF input = o.remainingInput THEN ReturnThis(o)
    ELSE Return(o, [Mutable(o, TRUE) EXCEPT !.remainingInput = input])

AddInput(o, input) == SetInput(o, o.remainingInput \o input)

\* RunnableNFA.stop
Stop(o) ==
    IF ~IsRunning(o) THEN ReturnThis(o)
    ELSE Return(o, [Mutable(o, TRUE) EXCEPT
                       !.current = {}, !.followedTransitions = NoFollowed, !.numRead = -1])

\* The loops of run and runComplete on the mutable nfa; r is the outcome of
\* the last call made on it.
RECURSIVE RunLoop(_, _)
RunLoop(r, complete) ==
    IF r.threw \/ r.ret.remainingInput = <<>> THEN r
    ELSE IF ~complete /\ ResultValue(r.ret) = -1 THEN ReturnThis(WithResult(r.ret))
    ELSE RunLoop(Step(IF complete THEN r.ret ELSE WithResult(r.ret)), complete)

Ran(this, r) == IF r.threw THEN Throw(this, r.ret) ELSE Return(this, r.ret)

WithInput(nfa, input) == IF input # <<>> THEN AddInput(nfa, input).ret ELSE nfa

Started(nfa) == IF ~IsRunning(nfa) THEN Reset(nfa, FALSE, <<>>) ELSE ReturnThis(nfa)

\* RunnableNFA.run
RunFrom(this, result, input) ==
    IF result = -1 THEN ReturnThis(this)
    ELSE Ran(this, RunLoop(Started(WithInput(Mutable(this, TRUE), input)), FALSE))

Run(o, input) == RunFrom(WithResult(o), ResultValue(o), input)

\* RunnableNFA.runComplete
RunComplete(o, input) ==
    Ran(o, RunLoop(ReturnThis(WithInput(Mutable(o, TRUE), input)), TRUE))

\* RunnableNFA.accepts
Rerun(r) == IF r.threw THEN r ELSE Run(r.ret, <<>>)

Accepted(r) == [value |-> ~r.threw /\ ResultValue(r.ret) = 1, threw |-> r.threw]

Accepts(o, input) == Accepted(Rerun(Reset([o EXCEPT !.mutable = TRUE], TRUE, input)))

(***************************************************************************)
(* RunnableNFA.accepts runs a copy made by NFA.mutableCopy.  NFA.init      *)
(* copies the fields of the original by reference, so the copy starts with *)
(* the very collections of the original; those of a mutable original are   *)
(* mutable and take the in-place writes of step and                        *)
(* _followEmptyTransitions (_current.add, _followedTransitions.set) made   *)
(* through the copy, until the copy is given a collection of its own.      *)
(***************************************************************************)
\* The collections of the original that a write through the copy reaches.
Aliased(o) == IF o.mutable THEN {"current", "followedTransitions"} ELSE {}

\* A variant of reset that assigns the counters only and keeps the
\* collections it was given.
ResetAssignsCounters == {"numRead", "remainingInput"}

\* The fields RunnableNFA.reset assigns a new value or a new collection.
ResetAssigns == {"numRead", "remainingInput", "current", "followedTransitions"}

\* The original after the copy has run to r.
Original(o, r, written) ==
    [o EXCEPT !.current = IF "current" \in written THEN r.ret.current ELSE @,
              !.followedTransitions =
                  IF "followedTransitions" \in written THEN r.ret.followedTransitions ELSE @]

AcceptsOutcome(o, r) ==
    [recv |-> Original(o, r, Aliased(o) \ ResetAssigns),
     ret |-> Accepted(r).value, same |-> FALSE, threw |-> r.threw]

\* RunnableNFA.accepts, with what it leaves of the receiver.
AcceptsCall(o, input) ==
    AcceptsOutcome(o, Rerun(Reset([o EXCEPT !.mutable = TRUE], TRUE, input)))

(***************************************************************************)
(* The definition format: NFA.toDefinition and NFA.init.  A definition is  *)
(* the record the JSON text carries; its strings are sequences of          *)
(* characters.                                                             *)
(***************************************************************************)
ToState(o) == <<o.start>> \o Ascending(o.states \ {o.start})

RECURSIVE AcceptOut(_, _, _)
AcceptOut(o, toState, i) ==
    IF i > Len(toState) THEN <<>>
    ELSE (IF IsAccept(o, toState[i]) THEN <<i - 1>> ELSE <<>>) \o AcceptOut(o, toState, i + 1)

RECURSIVE TransitionsOut(_, _, _)
TransitionsOut(tf, toState, i) ==
    IF i > Len(toState) THEN <<>>
    ELSE (IF toState[i] \in DOMAIN tf
          THEN << <<i - 1, GroupToString(tf[toState[i]], <<" ">>, FALSE)>> >>
          ELSE <<>>) \o TransitionsOut(tf, toState, i + 1)

DefinitionOf(o, toState) ==
    [n |-> Cardinality(o.states),
     names |-> [i \in 1..Len(toState) |-> Name(o, toState[i])],
     accept |-> AcceptOut(o, toState, 1),
     transitions |-> [i \in 1..Len(toState) |->
                         TransitionsOut(TransitionsFrom(o, toState[i]), toState, 1)],
     hasAlphabet |-> o.hasSetAlphabet,
     alphabet |-> IF o.hasSetAlphabet THEN GroupToString(o.alphabet, <<" ">>, FALSE) ELSE <<>>]

\* NFA.toDefinition
ToDefinition(o) == DefinitionOf(o, ToState(o))

\* id.toString() for the indices in use
IndexName(id) == CASE id = 0 -> "0" [] id = 1 -> "1" [] id = 2 -> "2" [] OTHER -> "3"

\* The transitions of one origin; idMap[targetID] is first + targetID for
\* targetID < n and undefined otherwise.
RECURSIVE ParseTransitions(_, _, _, _)
ParseTransitions(list, first, n, acc) ==
    IF list = <<>> THEN acc
    ELSE ParseTransitions(Tail(list), first, n,
             IF Head(list)[1] < n
             THEN ((first + Head(list)[1]) :> ParseString(Head(list)[2])) @@ acc
             ELSE acc)

Built(def, first) ==
    [states |-> first..(first + def.n - 1),
     statesRef |-> 0, statesOwned |-> FALSE,
     start |-> IF def.n > 0 THEN first ELSE 0,
     names |-> [s \in first..(first + def.n - 1) |->
                   IF s - first < Len(def.names) THEN def.names[s - first + 1]
                   ELSE IndexName(s - first)],
     accept |-> {first + def.accept[i] : i \in {j \in 1..Len(def.accept) : def.accept[j] < def.n}},
     transitions |-> [s \in first..(first + def.n - 1) |->
                         IF s - first < Len(def.transitions)
                         THEN ParseTransitions(def.transitions[s - first + 1], first, def.n,
                                               NoTransitions)
                         ELSE NoTransitions],
     hasSetAlphabet |-> FALSE, alphabet |-> {},
     mutable |-> TRUE, cache |-> EmptyCache,
     current |-> {}, remainingInput |-> <<>>, numRead |-> -1,
     followedTransitions |-> NoFollowed]

DefinedAlphabet(b, text) ==
    [b EXCEPT !.hasSetAlphabet = TRUE,
              !.alphabet = GroupMerge(b.cache.minimalAlphabet, StringInput(text))]

\* NFA.init for a definition; first is the value of NFA.nextID.
FromDefinition(def, first, mutable) ==
    [IF def.hasAlphabet /\ def.alphabet # <<>>
     THEN DefinedAlphabet(WithMinimal(Built(def, first)), def.alphabet)
     ELSE Built(def, first)
       EXCEPT !.mutable = mutable, !.statesOwned = mutable]

(***************************************************************************)
(* The editing session: one automaton value held by the caller, replaced   *)
(* by the value each call returns (NFAEditor.onNFA).                       *)
(***************************************************************************)
\* Bounds of the exploration.
MaxID == 2
MaxEdges == 2
MaxRenamed == 1
MaxInput == 2
MaxSteps == 3

\* obj is the automaton the editor shows and nextID the static NFA.nextID;
\* history is the editor's stack of earlier values, and held the set of the
\* state ids the values of the session hold or have held.  Both are kept
\* where the caller can undo and stay empty elsewhere.
VARIABLES obj, nextID, op, same, threw, steps, history, held

vars == <<obj, nextID, op, same, threw, steps, history, held>>

\* Ids a caller may pass: 0, every id handed out so far or later, removed ones.
StateArgs == 0..MaxID

\* Symbol strings a caller passes to setTransition and setAlphabet.
SymbolInputs == {<<"a">>, <<"a", " ", "b">>, <<"b", " ", "a">>, <<" ">>}
AlphabetInputs == {<<"a">>, <<"a", " ", "b">>, <<" ">>}

\* The iteration orders of a state set.
Orders(S) ==
    {f \in [1..Cardinality(S) -> S] : \A i, j \in 1..Cardinality(S) : f[i] = f[j] => i = j}

NumEdges(o) ==
    Cardinality({e \in o.states \X o.states : HasTransition(o, e[1], e[2])})

NoNames == <<>>
NoList == <<>>

\* Definitions handed to the constructor.
Definition(n, accept, transitions) ==
    [n |-> n, names |-> NoNames, accept |-> accept, transitions |-> transitions,
     hasAlphabet |-> FALSE, alphabet |-> <<>>]

InitDefinitions ==
    {Definition(0, NoList, NoList),
     Definition(1, NoList, NoList),
     Definition(2, <<1>>, << <<<<1, <<"a">>>>>>, NoList >>),
     Definition(2, <<0>>, << <<<<0, <<"a", " ", "b">>>>>>, <<<<1, <<"a">>>>>> >>),
     Definition(2, <<1>>, << <<<<0, <<"a">>>>, <<1, <<"a", " ", "b">>>>>>, NoList >>)}

\* The caller keeps what the call returned; an exception leaves it with the
\* receiver.
Returned(r, name, id) ==
    /\ steps < MaxSteps
    /\ steps' = steps + 1
    /\ obj' = r.ret
    /\ same' = r.same
    /\ threw' = r.threw
    /\ op' = name
    /\ nextID' = id
    /\ UNCHANGED <<history, held>>

Init ==
    \E def \in InitDefinitions :
        /\ obj = FromDefinition(def, 1, FALSE)
        /\ nextID = 1 + def.n
        /\ op = "init"
        /\ same = FALSE
        /\ threw = FALSE
        /\ steps = 0
        /\ history = <<>>
        /\ held = {}

addState ==
    /\ nextID <= MaxID
    /\ Returned(AddState(obj, "New state", nextID), "addState", nextID + 1)

removeState ==
    \E s \in StateArgs : Returned(RemoveState(obj, s), "removeState", nextID)

setTransition ==
    \E o \in StateArgs, t \in StateArgs, g \in SymbolInputs :
        /\ HasTransition(obj, o, t) \/ NumEdges(obj) < MaxEdges
        /\ Returned(SetTransition(obj, o, t, StringInput(g)), "setTransition", nextID)

removeTransition ==
    \E o \in StateArgs, t \in StateArgs :
        Returned(RemoveTransition(obj, o, t), "removeTransition", nextID)

setTransitionTarget ==
    \E o \in StateArgs, t \in StateArgs, n \in StateArgs :
        Returned(SetTransitionTarget(obj, o, t, n), "setTransitionTarget", nextID)

setStart ==
    \E s \in StateArgs : Returned(SetStart(obj, s), "setStart", nextID)

setAccept ==
    \E s \in StateArgs, b \in BOOLEAN :
        Returned(SetAccept(obj, s, b), "setAccept", nextID)

toggleAccept ==
    \E s \in StateArgs : Returned(ToggleAccept(obj, s), "toggleAccept", nextID)

setName ==
    \E s \in StateArgs :
        /\ Cardinality({x \in obj.states : Name(obj, x) = "q"}) < MaxRenamed
        /\ Returned(SetName(obj, s, "q"), "setName", nextID)

setAlphabet ==
    \E x \in AlphabetInputs :
        Returned(SetAlphabet(obj, StringInput(x)), "setAlphabet", nextID)

unsetAlphabet == Returned(UnsetAlphabet(obj), "unsetAlphabet", nextID)

trim ==
    \E order \in Orders(obj.states) : Returned(Trim(obj, order), "trim", nextID)

complete ==
    /\ CompleteAddsState(obj) => nextID <= MaxID
    /\ \E order \in Orders(obj.states) :
           Returned(Complete(obj, order, nextID), "complete",
                    IF CompleteAddsState(obj) THEN nextID + 1 ELSE nextID)

\* Reads of the derived accessors; each leaves its value in the cache.
reachableStates ==
    Returned(ReturnThis(WithReachable(obj)), "reachableStates", nextID)

generatingStates ==
    Returned(ReturnThis(WithGenerating(obj)), "generatingStates", nextID)

isDFA == Returned(ReturnThis(WithIsDFA(obj)), "isDFA", nextID)

\* NFAEditor.import of NFAEditor.exportValue: the definition of the current
\* automaton builds the next one.
import ==
    /\ steps < MaxSteps
    /\ steps' = steps + 1
    /\ nextID + Cardinality(obj.states) - 1 <= MaxID
    /\ obj' = FromDefinition(ToDefinition(obj), nextID, FALSE)
    /\ nextID' = nextID + Cardinality(obj.states)
    /\ op' = "import"
    /\ same' = FALSE
    /\ threw' = FALSE
    /\ UNCHANGED <<history, held>>

Next ==
    \/ addState
    \/ removeState
    \/ setTransition
    \/ removeTransition
    \/ setTransitionTarget
    \/ setStart
    \/ setAccept
    \/ toggleAccept
    \/ setName
    \/ setAlphabet
    \/ unsetAlphabet
    \/ trim
    \/ complete
    \/ reachableStates
    \/ generatingStates
    \/ isDFA
    \/ import

Spec == Init /\ [][Next]_vars

(***************************************************************************)
(* The simulation of automata whose transitions carry the empty symbol.    *)
(* SymbolGroup keeps the empty symbol as the member "" of _symbols (has,   *)
(* toString's includeEmpty); the automata here hold such groups on their   *)
(* edges, and the caller resets and steps them.                            *)
(***************************************************************************)
ClosureGroups == {{""}, {"a"}, {"", "a"}}

\* The transition maps over the states 1..MaxID with groups of ClosureGroups.
ClosureTransitions ==
    [1..MaxID -> UNION {[T -> ClosureGroups] : T \in SUBSET (1..MaxID)}]

ClosureInputs == {<<>>, <<"a">>, <<"a", "a">>}

InitClosure ==
    \E tr \in ClosureTransitions :
        /\ obj = [Built(Definition(MaxID, <<1>>, NoList), 1) EXCEPT
                     !.transitions = tr, !.mutable = FALSE]
        /\ nextID = 1 + MaxID
        /\ op = "init"
        /\ same = FALSE
        /\ threw = FALSE
        /\ steps = 0
        /\ history = <<>>
        /\ held = {}

reset == \E w \in ClosureInputs : Returned(Reset(obj, TRUE, w), "reset", nextID)

step == Returned(Step(obj), "step", nextID)

setInput == \E w \in ClosureInputs : Returned(SetInput(obj, w), "setInput", nextID)

stop == Returned(Stop(obj), "stop", nextID)

run == Returned(Run(obj, <<>>), "run", nextID)

NextClosure ==
    \/ reset
    \/ step
    \/ setInput
    \/ stop
    \/ run

SpecClosure == InitClosure /\ [][NextClosure]_vars

\* The same automata edited while they run: setTransition is given a group
\* of ClosureGroups.
setGroupTransition ==
    \E o \in 1..MaxID, t \in 1..MaxID, g \in ClosureGroups :
        Returned(SetTransition(obj, o, t, GroupInput(g)), "setTransition", nextID)

NextClosureEdits ==
    \/ reset
    \/ step
    \/ run
    \/ setGroupTransition
    \/ setTransitionTarget
    \/ complete

SpecClosureEdits == InitClosure /\ [][NextClosureEdits]_vars

(***************************************************************************)
(* Automata of three states built by the constructor from a definition,    *)
(* on which the caller reads the derived sets, sets the alphabet, removes  *)
(* a state, trims and completes.                                           *)
(***************************************************************************)
MaxStates == 3
MaxGraphEdges == 2
MaxGraphSteps == 1

GraphGroups == {<<"a">>, <<"a", " ", "b">>}

GraphIndices == 0..(MaxStates - 1)

GraphEdgeSets ==
    {E \in SUBSET (GraphIndices \X GraphIndices) : Cardinality(E) <= MaxGraphEdges}

\* The list of [target, symbols] pairs a definition holds for one origin.
OutList(g, origin, targets) ==
    [i \in 1..Len(targets) |-> <<targets[i], g[<<origin, targets[i]>>]>>]

GraphDefinition(g, accept) ==
    Definition(MaxStates, Ascending(accept),
               [i \in 1..MaxStates |->
                   OutList(g, i - 1, Ascending({t \in GraphIndices : <<i - 1, t>> \in DOMAIN g}))])

InitGraph ==
    \E E \in GraphEdgeSets :
        \E g \in [E -> GraphGroups], accept \in SUBSET GraphIndices :
            /\ obj = FromDefinition(GraphDefinition(g, accept), 1, FALSE)
            /\ nextID = 1 + MaxStates
            /\ op = "init"
            /\ same = FALSE
            /\ threw = FALSE
            /\ steps = 0
            /\ history = <<>>
            /\ held = {}

removeGraphState ==
    \E s \in 1..MaxStates : Returned(RemoveState(obj, s), "removeState", nextID)

completeGraph ==
    \E order \in Orders(obj.states) :
        Returned(Complete(obj, order, nextID), "complete",
                 IF CompleteAddsState(obj) THEN nextID + 1 ELSE nextID)

NextGraph ==
    /\ steps < MaxGraphSteps
    /\ \/ reachableStates
       \/ generatingStates
       \/ setAlphabet
       \/ removeGraphState
       \/ trim
       \/ completeGraph

SpecGraph == InitGraph /\ [][NextGraph]_vars

(***************************************************************************)
(* The editing session with its undo stack (NFAEditor.history): the caller *)
(* adds and removes states, completes, imports and undoes, so that values  *)
(* on different branches of one earlier value come to exist.               *)
(***************************************************************************)
MaxLineageID == 4
MaxLineageSteps == 4

\* NFA.nextID left as it is.
NotAllocated(id) == id

\* "NFA.nextID++"
Allocated(id) == id + 1

LineageDefinitions ==
    {Definition(1, NoList, NoList),
     Definition(2, <<1>>, << <<<<1, <<"a">>>>>>, NoList >>)}

\* NFAEditor.render reads isDFA and isTrimmed of the automaton shown.
Rendered(o) == WithIsTrimmed(WithIsDFA(o))

InitLineage ==
    \E def \in LineageDefinitions :
        /\ obj = Rendered(FromDefinition(def, 1, FALSE))
        /\ nextID = 1 + def.n
        /\ op = "init"
        /\ same = FALSE
        /\ threw = FALSE
        /\ steps = 0
        /\ history = <<>>
        /\ held = 1..def.n

\* NFAEditor.onNFA: the value a call returns replaces the one shown, and
\* the object shown before, as the call has left it, goes onto the history
\* when the two differ; the editor then renders the new value.
Recorded(r, name, id) ==
    /\ steps < MaxLineageSteps
    /\ steps' = steps + 1
    /\ obj' = Rendered(r.ret)
    /\ same' = r.same
    /\ threw' = r.threw
    /\ op' = name
    /\ nextID' = id
    /\ history' = IF r.same THEN history ELSE Append(history, r.recv)
    /\ held' = held \cup r.ret.states

addLineageState ==
    /\ nextID <= MaxLineageID
    /\ Recorded(AddState(obj, "New state", nextID), "addState", Allocated(nextID))

removeLineageState ==
    \E s \in obj.states : Recorded(RemoveState(obj, s), "removeState", nextID)

completeLineage ==
    /\ CompleteAddsState(obj) => nextID <= MaxLineageID
    /\ \E order \in Orders(obj.states) :
           Recorded(Complete(obj, order, nextID), "complete",
                    IF CompleteAddsState(obj) THEN Allocated(nextID) ELSE nextID)

\* NFAEditor.undo
undo ==
    /\ steps < MaxLineageSteps
    /\ steps' = steps + 1
    /\ history # <<>>
    /\ obj' = history[Len(history)]
    /\ history' = SubSeq(history, 1, Len(history) - 1)
    /\ op' = "undo"
    /\ same' = FALSE
    /\ threw' = FALSE
    /\ UNCHANGED <<nextID, held>>

\* NFAEditor.import; the history is left as it is.
importLineage ==
    /\ steps < MaxLineageSteps
    /\ steps' = steps + 1
    /\ nextID + Cardinality(obj.states) - 1 <= MaxLineageID
    /\ obj' = Rendered(FromDefinition(ToDefinition(obj), nextID, FALSE))
    /\ nextID' = nextID + Cardinality(obj.states)
    /\ op' = "import"
    /\ same' = FALSE
    /\ threw' = FALSE
    /\ history' = history
    /\ held' = held \cup (nextID..(nextID + Cardinality(obj.states) - 1))

NextLineage ==
    \/ addLineageState
    \/ removeLineageState
    \/ completeLineage
    \/ undo
    \/ importLineage

SpecLineage == InitLineage /\ [][NextLineage]_vars

(***************************************************************************)
(* The editor with its transition and alphabet forms: the session above    *)
(* and NFAEditor.promptUpdateTransitionSymbols and NFAEditor.editAlphabet, *)
(* started from an imported definition that may have no states.            *)
(***************************************************************************)
EditorDefinitions == LineageDefinitions \cup {Definition(0, NoList, NoList)}

\* What the forms hand over: new SymbolGroup(input, EDIT_SYMBOLS_DELIMITER).
EditorSymbolInputs ==
    {GroupInput(NewSymbolGroup(StringInput(text))) : text \in {<<"a">>, <<"a", " ", "b">>}}

InitEditor ==
    \E def \in EditorDefinitions :
        /\ obj = Rendered(FromDefinition(def, 1, FALSE))
        /\ nextID = 1 + def.n
        /\ op = "init"
        /\ same = FALSE
        /\ threw = FALSE
        /\ steps = 0
        /\ history = <<>>
        /\ held = 1..def.n

setEditorTransition ==
    \E origin \in obj.states, target \in obj.states, input \in EditorSymbolInputs :
        Recorded(SetTransition(obj, origin, target, input), "setTransition", nextID)

setEditorAlphabet ==
    \E input \in EditorSymbolInputs :
        Recorded(SetAlphabet(obj, input), "setAlphabet", nextID)

NextEditor ==
    \/ addLineageState
    \/ completeLineage
    \/ undo
    \/ importLineage
    \/ setEditorTransition
    \/ setEditorAlphabet

SpecEditor == InitEditor /\ [][NextEditor]_vars

(***************************************************************************)
(* Reference definitions the properties compare the program against; they  *)
(* read the fields of the automaton only.                                  *)
(***************************************************************************)
\* Input strings given to accepts.
InputChars == {"a", "b", " "}
Words == UNION {[1..n -> InputChars] : n \in 0..MaxInput}

Edge(o, s, t) == s \in DOMAIN o.transitions /\ t \in DOMAIN o.transitions[s]
EdgeOn(o, s, t, x) == Edge(o, s, t) /\ x \in o.transitions[s][t]

\* The least set holding S and closed under the edges (reversed if backwards).
RECURSIVE Traversal(_, _, _)
Traversal(o, S, backwards) ==
    LET more == {t \in o.states :
                    \E s \in S : IF backwards THEN Edge(o, t, s) ELSE Edge(o, s, t)}
    IN IF more \subseteq S THEN S ELSE Traversal(o, S \cup more, backwards)

FreshReachable(o) == IF o.start = 0 THEN {} ELSE Traversal(o, {o.start}, FALSE)
FreshGenerating(o) == Traversal(o, o.accept, TRUE)

Deterministic(o) ==
    \A s \in DOMAIN o.transitions :
        /\ \A t \in DOMAIN o.transitions[s] : "" \notin o.transitions[s][t]
        /\ \A t, u \in DOMAIN o.transitions[s] :
               t # u => o.transitions[s][t] \cap o.transitions[s][u] = {}

RECURSIVE EmptyClosure(_, _)
EmptyClosure(o, S) ==
    LET more == {t \in o.states : \E s \in S : EdgeOn(o, s, t, "")}
    IN IF more \subseteq S THEN S ELSE EmptyClosure(o, S \cup more)

RECURSIVE Reads(_, _, _)
Reads(o, S, w) ==
    IF w = <<>> THEN S
    ELSE Reads(o, EmptyClosure(o, {t \in o.states : \E s \in S : EdgeOn(o, s, t, Head(w))}),
               Tail(w))

\* w spells a path from the start state to an accept state.
InLanguage(o, w) ==
    /\ o.start \in o.states
    /\ Reads(o, EmptyClosure(o, {o.start}), w) \cap (o.accept \cap o.states) # {}

\* What a caller can see of an automaton.
Observable(o) ==
    [states |-> o.states, start |-> o.start,
     names |-> [s \in o.states |-> Name(o, s)],
     accept |-> o.accept, transitions |-> o.transitions,
     hasSetAlphabet |-> o.hasSetAlphabet, alphabet |-> Alphabet(o),
     current |-> o.current, remainingInput |-> o.remainingInput, numRead |-> o.numRead,
     reachableStates |-> ReachableValue(o), generatingStates |-> GeneratingValue(o),
     isDFA |-> IsDFAValue(o)]

\* The automaton after a caller has read its derived accessors.
Observed(o) == WithIsDFA(WithGenerating(WithReachable(o)))

(***************************************************************************)
(* Properties of the editing session.                                      *)
(***************************************************************************)
\* The union of the symbol groups on all edges.
AllSymbols(o) ==
    UNION {o.transitions[s][t] : <<s, t>> \in {e \in o.states \X o.states : Edge(o, e[1], e[2])}}

\* C1: in immutable mode every editing call that asks for what is already
\* the case returns the receiver itself: setAccept with the current flag,
\* setName with the current name, setStart with the current start when one
\* is set, setTransition with a group set-equal to the one on the edge,
\* removeTransition of an edge that does not exist, setAlphabet when the
\* explicit alphabet already is the argument united with the minimal
\* alphabet, and unsetAlphabet when no alphabet is set.
C1_NoOpReturnsReceiver ==
    /\ \A s \in obj.states :
           /\ SetAccept(obj, s, IsAccept(obj, s)).same
           /\ SetName(obj, s, Name(obj, s)).same
    /\ obj.start # 0 => SetStart(obj, obj.start).same
    /\ \A o \in obj.states, t \in obj.states :
           HasTransition(obj, o, t) =>
               /\ SetTransition(obj, o, t, GroupInput(Symbols(obj, o, t))).same
               /\ \A g \in SymbolInputs :
                      ParseString(g) = Symbols(obj, o, t) =>
                          SetTransition(obj, o, t, StringInput(g)).same
    /\ \A o \in StateArgs, t \in StateArgs :
           ~HasTransition(obj, o, t) => RemoveTransition(obj, o, t).same
    /\ \A x \in AlphabetInputs :
           (obj.hasSetAlphabet /\ obj.alphabet = ParseString(x) \cup AllSymbols(obj)) =>
               SetAlphabet(obj, StringInput(x)).same
    /\ ~obj.hasSetAlphabet => UnsetAlphabet(obj).same

\* The calls an immutable automaton must survive unchanged.
MutatorCalls(A, id) ==
    {AddState(A, "New state", id), UnsetAlphabet(A), Step(A), Stop(A), Reset(A, FALSE, <<>>)}
      \cup {RemoveState(A, s) : s \in StateArgs}
      \cup {SetStart(A, s) : s \in StateArgs}
      \cup {SetName(A, s, "q") : s \in StateArgs}
      \cup {SetAccept(A, e[1], e[2]) : e \in StateArgs \X BOOLEAN}
      \cup {RemoveTransition(A, e[1], e[2]) : e \in StateArgs \X StateArgs}
      \cup {SetTransition(A, e[1], e[2], StringInput(e[3])) :
              e \in StateArgs \X StateArgs \X SymbolInputs}
      \cup {SetTransitionTarget(A, e[1], e[2], e[3]) :
              e \in StateArgs \X StateArgs \X StateArgs}
      \cup {SetAlphabet(A, StringInput(x)) : x \in AlphabetInputs}
      \cup {Trim(A, order) : order \in Orders(A.states)}
      \cup {Complete(A, order, id) : order \in Orders(A.states)}
      \cup {Reset(A, TRUE, w) : w \in Words}
      \cup {Run(A, w) : w \in Words}
      \cup {RunComplete(A, w) : w \in Words}

\* C2: a mutator called on an immutable automaton leaves everything a
\* caller can see of that automaton as it was (state set, start, names,
\* accept set, transitions, alphabet, simulation state and the values of
\* reachableStates, generatingStates and isDFA); a change shows only in the
\* returned value, which is then another reference.
C2_ImmutableReceiverPersists ==
    \A r \in MutatorCalls(Observed(obj), nextID) :
        /\ Observable(r.recv) = Observable(Observed(obj))
        /\ Observable(r.ret) # Observable(Observed(obj)) => ~r.same

\* C3: in every reachable state the start is 0 or a member of the state
\* set, every accept state is a member, and every transition origin and
\* target is a member.
C3_ReferentialIntegrity ==
    /\ obj.start = 0 \/ obj.start \in obj.states
    /\ obj.accept \subseteq obj.states
    /\ DOMAIN obj.transitions \subseteq obj.states
    /\ \A s \in DOMAIN obj.transitions : DOMAIN obj.transitions[s] \subseteq obj.states

\* The fields C4 requires a call with an invalid id to leave alone.
Unchanged(r, o) ==
    /\ r.same
    /\ ~r.threw
    /\ r.ret.start = o.start
    /\ r.ret.accept = o.accept
    /\ r.ret.names = o.names
    /\ r.ret.transitions = o.transitions

\* C4: a call that names an id outside the state set returns the receiver
\* itself with start, accept set, names and transitions unchanged and does
\* not throw: removeState, setStart, setAccept, toggleAccept, setName,
\* setTransition and removeTransition with an invalid origin or target, and
\* setTransitionTarget with any invalid argument.
C4_InvalidIdIsNoOp ==
    \A id \in StateArgs \ obj.states :
        /\ Unchanged(RemoveState(obj, id), obj)
        /\ Unchanged(SetStart(obj, id), obj)
        /\ \A b \in BOOLEAN : Unchanged(SetAccept(obj, id, b), obj)
        /\ Unchanged(ToggleAccept(obj, id), obj)
        /\ Unchanged(SetName(obj, id, "q"), obj)
        /\ \A t \in StateArgs :
               /\ Unchanged(RemoveTransition(obj, id, t), obj)
               /\ Unchanged(RemoveTransition(obj, t, id), obj)
               /\ \A g \in SymbolInputs :
                      /\ Unchanged(SetTransition(obj, id, t, StringInput(g)), obj)
                      /\ Unchanged(SetTransition(obj, t, id, StringInput(g)), obj)
               /\ \A u \in StateArgs :
                      /\ Unchanged(SetTransitionTarget(obj, id, t, u), obj)
                      /\ Unchanged(SetTransitionTarget(obj, t, id, u), obj)
                      /\ Unchanged(SetTransitionTarget(obj, t, u, id), obj)

\* C5: after any sequence of edits and reads, reachableStates returns the
\* set a fresh forward traversal from the current start over the current
\* transitions finds.
C5_ReachableCacheCoherent == ReachableValue(obj) = FreshReachable(obj)

\* C6: after any sequence of edits and reads, generatingStates returns the
\* set a fresh backward traversal from the current accept set over the
\* current transitions finds.
C6_GeneratingCacheCoherent == GeneratingValue(obj) = FreshGenerating(obj)

\* An effective edit has carried a non-empty cached set of generating
\* states over.
C6_CacheCarried ==
    /\ op \in {"setStart", "setTransition", "complete", "addState"}
    /\ ~same
    /\ obj.cache.hasGenerating
    /\ obj.cache.generatingStates # {}

C8_AcceptsIsAcceptance ==
    \A w \in Words :
        /\ ~Accepts(obj, w).threw
        /\ Accepts(obj, w).value <=> InLanguage(obj, w)

\* The automaton NFAEditor.import builds from the exported definition.
RoundTrip(o, id) == FromDefinition(ToDefinition(o), id, FALSE)

\* C10: the automaton built from toDefinition(A) accepts exactly the input
\* strings A accepts.
C10_RoundTripKeepsLanguage ==
    \A w \in Words :
        Accepts(RoundTrip(obj, nextID), w).value <=> Accepts(obj, w).value

C11_TrimKeepsLanguage ==
    \A trimmed \in {Trim(obj, order).ret : order \in Orders(obj.states)} :
        \A w \in Words : Accepts(trimmed, w) = Accepts(obj, w)

\* trim removes a state, keeps a state besides the start, and the language
\* holds a non-empty string.
C11_TrimRemoves ==
    \E order \in Orders(obj.states) :
        /\ ~Trim(obj, order).same
        /\ Cardinality(Trim(obj, order).ret.states) = 2
        /\ \E w \in Words : w # <<>> /\ Accepts(obj, w).value

\* C12: complete preserves the language: for every input string w,
\* complete(A).accepts(w) equals A.accepts(w), whether the added transitions
\* go to an existing non-generating state or to a new reject state.
C12_CompleteKeepsLanguage ==
    \A completed \in {Complete(obj, order, nextID).ret : order \in Orders(obj.states)} :
        \A w \in Words : Accepts(completed, w) = Accepts(obj, w)

\* complete creates the reject state and adds transitions to it, on an
\* automaton that accepts a non-empty string and rejects another.
C12_RejectStateAdded ==
    /\ CompleteAddsState(obj)
    /\ \E order \in Orders(obj.states) : ~Complete(obj, order, nextID).same
    /\ \E w \in Words : w # <<>> /\ Accepts(obj, w).value
    /\ \E w \in Words : ~Accepts(obj, w).value

\* The targets of the edges that leave s on the symbol x.
TargetsOn(o, s, x) == {t \in o.states : EdgeOn(o, s, t, x)}

\* C13: after complete, every state, the state that receives the added
\* transitions included, has exactly one outgoing edge for every symbol of
\* the alphabet.  The automata completed here are the deterministic ones,
\* which have at most one such edge beforehand.
C13_CompleteIsTotal ==
    Deterministic(obj) =>
        \A completed \in {Complete(obj, order, nextID).ret : order \in Orders(obj.states)} :
            \A s \in completed.states, x \in Alphabet(completed) :
                Cardinality(TargetsOn(completed, s, x)) = 1

\* The states trim is to keep: those both reachable from the start and
\* generating, and the start state.
Useful(o) ==
    (FreshReachable(o) \cap FreshGenerating(o) \cap o.states) \cup ({o.start} \cap o.states)

\* C14: the state set of trim(A) is the set of states of A that are both
\* reachable from the start and generating, together with the start state,
\* and every transition of A between two kept states is still present with
\* the same symbol group.
C14_TrimKeepsUseful ==
    \A trimmed \in {Trim(obj, order).ret : order \in Orders(obj.states)} :
        /\ trimmed.states = Useful(obj)
        /\ \A s \in Useful(obj), t \in Useful(obj) :
               Edge(obj, s, t) =>
                   /\ Edge(trimmed, s, t)
                   /\ trimmed.transitions[s][t] = obj.transitions[s][t]

(***************************************************************************)
(* Properties of the state ids.                                            *)
(***************************************************************************)
\* The union of the state sets of the values on the history.
HistoryStates == UNION {history[i].states : i \in 1..Len(history)}

\* C15: state ids are never reused within a lineage: addState adds one
\* state, and every id that addState, the reject state of complete or the
\* constructor creates is different from every id that a value of the
\* lineage holds or has ever held, ids of removed states and ids created
\* on a branch left by undo included.
C15_IdsNeverReused ==
    [][/\ op' = "addState" => Cardinality(obj'.states) = Cardinality(obj.states) + 1
       /\ op' \in {"addState", "complete", "import"} =>
              (obj'.states \ obj.states) \cap held = {}]_vars

\* addState has created a state while an id exists that neither the value
\* shown nor a value on the history holds: it was created on a branch that
\* undo has left.
C15_CreatedAfterUndo ==
    /\ op = "addState"
    /\ \E id \in held : id \notin obj.states \cup HistoryStates

(***************************************************************************)
(* Properties of the simulation.                                           *)
(***************************************************************************)
\* C16: result is determined by the current-state set: when the automaton
\* is not running it is 0; when it is running it is 1 if some current state
\* is an accept state, otherwise 0 if some current state is generating,
\* otherwise -1.
C16_ResultFromCurrent ==
    ResultValue(obj) =
        IF obj.numRead = -1 THEN 0
        ELSE IF obj.current \cap obj.accept # {} THEN 1
        ELSE IF obj.current \cap FreshGenerating(obj) # {} THEN 0
        ELSE -1

\* A step has left the automaton running in states none of which accepts
\* and one of which is generating.
C16_Inconclusive ==
    /\ op = "step"
    /\ obj.numRead > 0
    /\ obj.current # {}
    /\ obj.current \cap obj.accept = {}
    /\ ResultValue(obj) = 0

\* The targets of the edges that leave a state of S on the symbol x.
Targets(o, S, x) == {t \in o.states : \E s \in S : EdgeOn(o, s, t, x)}

\* What C17 requires of the automaton stepped from o.
Stepped(o, r) ==
    /\ ~r.threw
    /\ r.ret.current = EmptyClosure(o, Targets(o, o.current, Head(o.remainingInput)))
    /\ r.ret.numRead = o.numRead + 1
    /\ r.ret.remainingInput = Tail(o.remainingInput)

EmptyEdges(o, S) == {e \in S \X o.states : EdgeOn(o, e[1], e[2], "")}

\* What C18 requires of the automaton reset from o to the input given.
ResetTo(o, r, input) ==
    /\ ~r.threw
    /\ r.ret.numRead = 0
    /\ r.ret.current = EmptyClosure(o, {o.start})
    /\ DOMAIN r.ret.followedTransitions = EmptyEdges(o, EmptyClosure(o, {o.start}))
    /\ \A e \in DOMAIN r.ret.followedTransitions : r.ret.followedTransitions[e] = 0
    /\ r.ret.remainingInput = input

ReadBefore(o) == IF o.numRead = -1 THEN 0 ELSE o.numRead

\* What C19 requires of run(extra) called on o: it returns at the end of
\* the input or at a definite reject, having consumed the first k symbols
\* of the remaining input followed by extra.
RanOn(o, r, total) ==
    /\ ~r.threw
    /\ r.ret.remainingInput = <<>> \/ ResultValue(r.ret) = -1
    /\ \E k \in 0..Len(total) :
           /\ r.ret.numRead = ReadBefore(o) + k
           /\ \/ r.ret.remainingInput = SubSeq(total, k + 1, Len(total))
              \/ k = 0 /\ r.ret.remainingInput = o.remainingInput

SameResult(r, rc) ==
    /\ ~r.threw
    /\ ~rc.threw
    /\ ResultValue(r.ret) = ResultValue(rc.ret)

\* The calls of step on the input w return and leave result at -1.
StaysRejected(rc) == ~rc.threw /\ ResultValue(rc.ret) = -1

C21_StopClears ==
    obj.numRead # -1 =>
        /\ ~Stop(obj).threw
        /\ Stop(obj).ret.numRead = -1
        /\ Stop(obj).ret.current = {}
        /\ DOMAIN Stop(obj).ret.followedTransitions = {}
        /\ Stop(obj).ret.remainingInput = <<>>

(***************************************************************************)
(* Properties of the mutable mode.                                         *)
(***************************************************************************)
\* An automaton in mutable mode with the contents of o.
InMutableMode(o) == [o EXCEPT !.mutable = TRUE]

\* The outcome m of a mutator on a mutable receiver is the receiver itself,
\* which shows what the same call on the immutable automaton returns (i).
InPlace(m, i) ==
    /\ m.same
    /\ m.recv = m.ret
    /\ m.threw = i.threw
    /\ Observable(m.ret) = Observable(i.ret)

\* C22: in mutable mode every mutator (addState, removeState,
\* setTransition, removeTransition, setTransitionTarget, setStart,
\* setAccept, setName, setAlphabet, unsetAlphabet, trim, complete, reset,
\* step, run, stop) returns the receiver itself, and the receiver then
\* shows the effect of the operation: what the call returns in immutable
\* mode.
C22_MutableInPlace ==
    /\ InPlace(AddState(InMutableMode(obj), "New state", nextID),
               AddState(obj, "New state", nextID))
    /\ InPlace(UnsetAlphabet(InMutableMode(obj)), UnsetAlphabet(obj))
    /\ InPlace(Reset(InMutableMode(obj), FALSE, <<>>), Reset(obj, FALSE, <<>>))
    /\ InPlace(Step(InMutableMode(obj)), Step(obj))
    /\ InPlace(Run(InMutableMode(obj), <<>>), Run(obj, <<>>))
    /\ InPlace(Stop(InMutableMode(obj)), Stop(obj))
    /\ \A w \in ClosureInputs :
           InPlace(Reset(InMutableMode(obj), TRUE, w), Reset(obj, TRUE, w))
    /\ \A x \in AlphabetInputs :
           InPlace(SetAlphabet(InMutableMode(obj), StringInput(x)),
                   SetAlphabet(obj, StringInput(x)))
    /\ \A s \in StateArgs :
           /\ InPlace(RemoveState(InMutableMode(obj), s), RemoveState(obj, s))
           /\ InPlace(SetStart(InMutableMode(obj), s), SetStart(obj, s))
           /\ InPlace(SetName(InMutableMode(obj), s, "q"), SetName(obj, s, "q"))
           /\ \A b \in BOOLEAN :
                  InPlace(SetAccept(InMutableMode(obj), s, b), SetAccept(obj, s, b))
           /\ \A t \in StateArgs :
                  /\ InPlace(RemoveTransition(InMutableMode(obj), s, t),
                             RemoveTransition(obj, s, t))
                  /\ \A g \in SymbolInputs :
                         InPlace(SetTransition(InMutableMode(obj), s, t, StringInput(g)),
                                 SetTransition(obj, s, t, StringInput(g)))
                  /\ \A n \in StateArgs :
                         InPlace(SetTransitionTarget(InMutableMode(obj), s, t, n),
                                 SetTransitionTarget(obj, s, t, n))
    /\ \A order \in Orders(obj.states) :
           /\ InPlace(Trim(InMutableMode(obj), order), Trim(obj, order))
           /\ InPlace(Complete(InMutableMode(obj), order, nextID),
                      Complete(obj, order, nextID))

(***************************************************************************)
(* Frame properties of the editing calls.                                  *)
(***************************************************************************)
\* The automaton b has the edge (o, t) exactly when a has it, with the same
\* symbol group.
SameEdge(a, b, o, t) ==
    /\ Edge(a, o, t) <=> Edge(b, o, t)
    /\ Edge(a, o, t) => a.transitions[o][t] = b.transitions[o][t]

\* C23: removeState(s) removes exactly s and its edges: for a member state
\* s, afterwards the state set is the previous one without s, no transition
\* has s as origin or as target, and every transition between two other
\* states is still present with the same symbol group.
C23_RemoveStateFrame ==
    \A s \in obj.states :
        /\ RemoveState(obj, s).ret.states = obj.states \ {s}
        /\ \A o \in StateArgs :
               /\ ~Edge(RemoveState(obj, s).ret, s, o)
               /\ ~Edge(RemoveState(obj, s).ret, o, s)
               /\ ~HasTransition(RemoveState(obj, s).ret, s, o)
               /\ ~HasTransition(RemoveState(obj, s).ret, o, s)
        /\ \A o \in StateArgs \ {s}, t \in StateArgs \ {s} :
               /\ SameEdge(obj, RemoveState(obj, s).ret, o, t)
               /\ Symbols(RemoveState(obj, s).ret, o, t) = Symbols(obj, o, t)

\* A state with an edge to and from another state, which has a loop, can be
\* removed: the loop is the edge that stays.
C23_RemovesEdges ==
    \E s \in obj.states, t \in obj.states :
        /\ s # t
        /\ Edge(obj, s, t) /\ Edge(obj, t, s) /\ Edge(obj, t, t)
        /\ ~RemoveState(obj, s).same
        /\ RemoveState(obj, s).ret.states = obj.states \ {s}
        /\ Edge(RemoveState(obj, s).ret, t, t)

\* Symbol groups a caller passes to setTransition: strings and group objects.
EdgeInputs ==
    {StringInput(g) : g \in SymbolInputs}
        \cup {GroupInput(g) : g \in {{}, {"a"}, {"a", "b"}}}

\* After the call that returned r, the edge (o, t) of automaton a holds
\* the group of the symbols given, and all other edges are those of a.
SetsOneEdge(a, r, o, t, g) ==
    /\ ~r.threw
    /\ HasTransition(r.ret, o, t)
    /\ Edge(r.ret, o, t)
    /\ GroupEquals(Symbols(r.ret, o, t), NewSymbolGroup(g))
    /\ r.ret.states = a.states
    /\ \A e \in (StateArgs \X StateArgs) \ {<<o, t>>} : SameEdge(a, r.ret, e[1], e[2])

\* C24: setTransition(o, t, g) sets exactly one edge: for member states o
\* and t, afterwards the edge (o, t) exists and its symbol group is
\* set-equal to g, whether the edge existed before or not, and every other
\* edge keeps its previous symbol group.
C24_SetTransitionFrame ==
    \A o \in obj.states, t \in obj.states, g \in EdgeInputs :
        SetsOneEdge(obj, SetTransition(obj, o, t, g), o, t, g)

\* An edge with the group {a} is given the group {b}, next to another edge
\* from the same origin.
C24_EdgeReplaced ==
    \E o \in obj.states, t \in obj.states, u \in obj.states :
        /\ u # t
        /\ Edge(obj, o, t) /\ obj.transitions[o][t] = {"a"}
        /\ Edge(obj, o, u)
        /\ SetTransition(obj, o, t, StringInput(<<"b">>)).ret.transitions[o][t] = {"b"}
        /\ ~SetTransition(obj, o, t, StringInput(<<"b">>)).same

(***************************************************************************)
(* Properties of accepts.                                                  *)
(***************************************************************************)
\* The fields of the simulation and of the graph that a caller can read.
Fields(o) ==
    [running |-> IsRunning(o), current |-> o.current,
     remainingInput |-> o.remainingInput, numRead |-> o.numRead,
     followedTransitions |-> o.followedTransitions,
     states |-> o.states, start |-> o.start, accept |-> o.accept,
     transitions |-> o.transitions]

NextStepping ==
    \/ reset
    \/ step
    \/ run
    \/ stop
    \/ removeState
    \/ setTransition
    \/ removeTransition
    \/ setTransitionTarget

SpecStepping == Init /\ [][NextStepping]_vars

\* C26: a deterministic automaton has at most one current state: in every
\* running state in which isDFA is true, reached by reset, step, run and
\* any structural edits made while running, the current-state set contains
\* at most one state.
C26_DFAOneCurrent ==
    (IsRunning(obj) /\ IsDFAValue(obj)) => Cardinality(obj.current) <= 1

(***************************************************************************)
(* Properties of the symbol groups.                                        *)
(***************************************************************************)
\* The symbol groups on the edges of an automaton.
EdgeGroups(o) ==
    {o.transitions[e[1]][e[2]] : e \in {p \in StateArgs \X StateArgs : Edge(o, p[1], p[2])}}

\* C27: symbol strings round-trip by value: for every symbol group g,
\* constructing a symbol group from the string that g serializes to in a
\* definition yields a group with exactly the same set of symbols as g.
C27_SymbolStringRoundTrip ==
    \A g \in EdgeGroups(obj) :
        NewSymbolGroup(StringInput(GroupToString(g, <<" ">>, FALSE))) = g

\* a.merge(b) returns a itself: the test SymbolGroup.merge makes.
ReturnsReceiver(a, b) == GroupEquals(a, StaticMerge(<<GroupInput(a), GroupInput(b)>>))

\* C28: merge is set union with reference-preserving no-op: for all symbol
\* groups a and b, a.merge(b) contains exactly the symbols of a together
\* with the symbols of b, and it returns a itself if and only if every
\* symbol of b is already in a.
C28_MergeIsUnion ==
    \A a \in EdgeGroups(obj) \cup {{}}, b \in EdgeGroups(obj) \cup {{}} :
        /\ GroupMerge(a, GroupInput(b)) = a \cup b
        /\ ReturnsReceiver(a, b) <=> b \subseteq a

\* The strings that denote the empty symbol: "", "~" and the letter epsilon.
EmptySymbolInputs == {<<>>, <<"~">>, <<"eps">>}

\* C29: the empty symbol is constructible: a symbol group constructed from
\* the empty string, from "~" or from the letter epsilon contains exactly
\* one symbol, the empty symbol, and a transition set with such a group is
\* followed without consuming input and makes isDFA false.
C29_EmptySymbolConstructible ==
    \A x \in EmptySymbolInputs :
        /\ NewSymbolGroup(StringInput(x)) = {""}
        /\ \A t \in obj.states :
               obj.start \in obj.states =>
                   /\ "" \in Symbols(SetTransition(obj, obj.start, t, StringInput(x)).ret,
                                     obj.start, t)
                   /\ ~IsDFAValue(SetTransition(obj, obj.start, t, StringInput(x)).ret)
                   /\ t \in Reset(SetTransition(obj, obj.start, t, StringInput(x)).ret,
                                  TRUE, <<>>).ret.current

(***************************************************************************)
(* Properties of the cache.                                                *)
(***************************************************************************)
\* The cached values of an automaton, by name; absent ones are "none".
CachedValues(o) ==
    [reachableStates |-> IF o.cache.hasReachable
                         THEN <<"set", o.cache.reachableStates>> ELSE <<"none">>,
     generatingStates |-> IF o.cache.hasGenerating
                          THEN <<"set", o.cache.generatingStates>> ELSE <<"none">>,
     isDFA |-> o.cache.isDFA,
     minimalAlphabet |-> IF o.cache.hasMinimal
                         THEN <<"set", o.cache.minimalAlphabet>> ELSE <<"none">>]

\* The call that returned r from a was effective, dropped the cached value
\* named and carried the other three over.
DiscardsOnly(a, r, name) ==
    ~r.same => CachedValues(r.ret) = [CachedValues(a) EXCEPT ![name] = <<"none">>]

\* C30: cache invalidation is exact for setStart and setAccept: an
\* effective setStart discards only the cached reachable-states value and
\* carries the cached generating-states, is-DFA and minimal-alphabet values
\* over to the result; an effective setAccept discards only the cached
\* generating-states value and carries the cached reachable-states, is-DFA
\* and minimal-alphabet values over.
C30_CacheInvalidationExact ==
    \A s \in StateArgs :
        /\ DiscardsOnly(obj, SetStart(obj, s), "reachableStates")
        /\ \A b \in BOOLEAN : DiscardsOnly(obj, SetAccept(obj, s, b), "generatingStates")

(***************************************************************************)
(* Properties of the shared sub-structures.                                *)
(***************************************************************************)
\* The call that returned r from a was effective and its result refers to
\* the state-set object of a.
SharesStates(a, r) == ~r.same => r.ret.statesRef = a.statesRef

\* The call that returned r from a was effective and its result refers to
\* a state-set object other than that of a.
NewStates(a, r) == ~r.same => r.ret.statesRef # a.statesRef

\* C31: structural sharing of the state set: under immutable mode, every
\* effective mutator that neither adds nor removes a state (setStart,
\* setAccept, setName, setTransition, removeTransition,
\* setTransitionTarget, setAlphabet, unsetAlphabet) returns a value whose
\* state set is the same reference as the receiver's, and addState and
\* removeState return a value whose state-set reference differs from the
\* receiver's.
C31_StateSetShared ==
    /\ NewStates(obj, AddState(obj, "New state", nextID))
    /\ ~AddState(obj, "New state", nextID).same
    /\ SharesStates(obj, UnsetAlphabet(obj))
    /\ \A x \in AlphabetInputs : SharesStates(obj, SetAlphabet(obj, StringInput(x)))
    /\ \A s \in StateArgs :
           /\ NewStates(obj, RemoveState(obj, s))
           /\ SharesStates(obj, SetStart(obj, s))
           /\ SharesStates(obj, SetName(obj, s, "q"))
           /\ \A b \in BOOLEAN : SharesStates(obj, SetAccept(obj, s, b))
           /\ \A t \in StateArgs :
                  /\ SharesStates(obj, RemoveTransition(obj, s, t))
                  /\ \A g \in SymbolInputs :
                         SharesStates(obj, SetTransition(obj, s, t, StringInput(g)))
                  /\ \A n \in StateArgs :
                         SharesStates(obj, SetTransitionTarget(obj, s, t, n))

\* An automaton with two states and an edge: an effective setTransition
\* keeps the state-set object and an effective removeState replaces it.
C31_EditsOfBothKinds ==
    \E s \in obj.states, t \in obj.states :
        /\ s # t
        /\ Edge(obj, s, t)
        /\ ~SetTransition(obj, s, t, StringInput(<<"b", " ", "a">>)).same
        /\ SetTransition(obj, s, t, StringInput(<<"b", " ", "a">>)).ret.statesRef = obj.statesRef
        /\ ~RemoveState(obj, s).same
        /\ RemoveState(obj, s).ret.statesRef # obj.statesRef

(***************************************************************************)
(* Further properties of trim and complete.                                *)
(***************************************************************************)
\* The automata trim returns, one for every order of its loop.
Trims(o) == {Trim(o, order).ret : order \in Orders(o.states)}

\* C32: trim() reaches a fixed point: for every automaton A (including one
\* with an unreachable accept state), isTrimmed is true on trim(A), and
\* therefore trim(trim(A)) returns the same reference as trim(A).
C32_TrimFixedPoint ==
    \A trimmed \in Trims(obj) :
        /\ IsTrimmed(trimmed)
        /\ \A again \in Orders(trimmed.states) : Trim(trimmed, again).same

\* The automata complete returns, one for every order of its loops.
Completions(o, id) == {Complete(o, order, id).ret : order \in Orders(o.states)}

\* C33: complete() only adds transitions: every edge (o, t) and every
\* symbol c carried by (o, t) before complete() is still carried by (o, t)
\* afterwards, also when t is the existing non-generating state that
\* complete() routes the missing symbols to.
C33_CompleteOnlyAdds ==
    \A completed \in Completions(obj, nextID) :
        \A o \in obj.states, t \in obj.states :
            Edge(obj, o, t) =>
                /\ Edge(completed, o, t)
                /\ obj.transitions[o][t] \subseteq completed.transitions[o][t]

\* The definition of a trimmed automaton: every state is reachable from the
\* start and every state other than the start is generating.
TrimmedByDefinition(o) ==
    /\ o.states \subseteq FreshReachable(o)
    /\ o.states \ {o.start} \subseteq FreshGenerating(o)

\* C34: isTrimmed matches its definition on every automaton: it is true if
\* and only if every member state is reachable from the start and every
\* member state other than the start is generating; this includes the
\* automaton with no states, automata with no start state, and automata
\* reached after removing states.
C34_IsTrimmedMatches == IsTrimmed(obj) <=> TrimmedByDefinition(obj)

(***************************************************************************)
(* Properties of the definition format.                                    *)
(***************************************************************************)
\* The target indices of the transitions of a definition.
TargetIndices(def) ==
    UNION {{def.transitions[i][j][1] : j \in 1..Len(def.transitions[i])} :
           i \in 1..Len(def.transitions)}

\* def is a well-formed definition of the automaton o.
WellFormed(o, def) ==
    /\ def.n = Cardinality(o.states)
    /\ Len(def.names) = def.n
    /\ Len(def.transitions) = def.n
    /\ def.n > 0 => ToState(o)[1] = o.start /\ o.start \in o.states
    /\ \A i \in 1..Len(def.accept) : def.accept[i] \in 0..(def.n - 1)
    /\ TargetIndices(def) \subseteq 0..(def.n - 1)
    /\ def.hasAlphabet <=> o.hasSetAlphabet

\* C35: toDefinition always yields a well-formed definition: for every
\* automaton reachable by any sequence of mutators, n equals the number of
\* member states, names and transitions each have exactly n entries, index
\* 0 denotes the start state, every accept index and every transition
\* target index is in the range 0..n-1, and the alphabet field is present
\* if and only if an explicit alphabet is set.
C35_DefinitionWellFormed == WellFormed(obj, ToDefinition(obj))

(***************************************************************************)
(* Further properties of the simulation.                                   *)
(***************************************************************************)
\* C36: simulation operations with nothing to do return their receiver:
\* under immutable mode, step() on a running automaton with empty remaining
\* input, stop() on a non-running automaton, setInput(x) with x equal to
\* the current remaining input, and run() and runComplete() without extra
\* input on a running automaton whose remaining input is empty each return
\* the receiver itself.
C36_IdleSimulationReturnsReceiver ==
    /\ SetInput(obj, obj.remainingInput).same
    /\ ~IsRunning(obj) => Stop(obj).same
    /\ (IsRunning(obj) /\ obj.remainingInput = <<>>) =>
           /\ Step(obj).same
           /\ Run(obj, <<>>).same
           /\ RunComplete(obj, <<>>).same

(***************************************************************************)
(* Properties of the editor's history.                                     *)
(***************************************************************************)
\* The history has grown by one value, which shows what `before` showed.
PushedAs(before) ==
    /\ Len(history') = Len(history) + 1
    /\ SubSeq(history', 1, Len(history)) = history
    /\ Observable(history'[Len(history')]) = Observable(before)

\* The last value of the history has left it and is the one shown.
Popped ==
    /\ history # <<>>
    /\ history' = SubSeq(history, 1, Len(history) - 1)
    /\ Observable(obj') = Observable(history[Len(history)])

EditorCalls == {"addState", "removeState", "complete", "setTransition", "setAlphabet"}

\* C37: undo restores the previous value: a call of the editor whose result
\* is a different reference pushes the automaton held before it onto the
\* history, with the observable state it had then, a call that returns the
\* same reference pushes nothing, and undo makes the last value pushed and
\* not yet undone the one shown.
C37_UndoRestores ==
    [][/\ (op' \in EditorCalls /\ ~same') => PushedAs(obj)
       /\ (op' \in EditorCalls /\ same') => history' = history
       /\ op' = "undo" => Popped]_vars

\* The same for every call but complete.
C37_UndoRestoresButComplete ==
    [][/\ (op' \in EditorCalls \ {"complete"} /\ ~same') => PushedAs(obj)
       /\ (op' \in EditorCalls /\ same') => history' = history
       /\ op' = "undo" => Popped]_vars

\* C38: the current states are member states: in every running state that
\* reset, step, run and edits made while running reach, every element of
\* the current-state set is a state of the automaton.
C38_CurrentAreStates == IsRunning(obj) => obj.current \subseteq obj.states

\* Every call but removeState keeps the current states among the states,
\* provided the start state is a state where the call starts the run.
C38_KeptByOtherCalls ==
    [][(/\ op' # "removeState"
        /\ (op' = "reset" \/ ~IsRunning(obj)) => obj.start \in obj.states
        /\ obj.current \subseteq obj.states)
           => obj'.current \subseteq obj'.states]_vars

\* Every target of an empty-symbol edge that leaves a current state is a
\* current state.
ClosedUnderEmpty(o) ==
    \A s \in o.current : \A t \in o.states : EdgeOn(o, s, t, "") => t \in o.current

\* C39: the current-state set is closed under empty-symbol transitions in
\* every running state that reset, step, run and setTransition,
\* setTransitionTarget or complete applied while running reach, so that
\* the closure of the current states is the current states.
C39_CurrentClosed ==
    (IsRunning(obj) /\ ~threw) =>
        /\ ClosedUnderEmpty(obj)
        /\ EmptyClosure(obj, obj.current \cap obj.states) \subseteq obj.current

\* setTransition, applied while running, has returned a new automaton whose
\* only edge carries the empty symbol from the start state to another
\* state, and both states are current.
C39_EmptyEdgeSetWhileRunning ==
    /\ op = "setTransition" /\ ~same /\ ~threw
    /\ IsRunning(obj)
    /\ \E s \in obj.current : \E t \in obj.current \ {s} :
           /\ s = obj.start
           /\ EdgeOn(obj, s, t, "")
           /\ \A u, v \in obj.states : Edge(obj, u, v) => (u = s /\ v = t)

(***************************************************************************)
(* Properties of the alphabet.                                             *)
(***************************************************************************)
\* The explicit alphabet holds every symbol of every edge.
CoversTransitions(o) == o.hasSetAlphabet => AllSymbols(o) \subseteq o.alphabet

\* setTransition with new symbols on an automaton with an explicit alphabet
\* returns one whose explicit alphabet is the old one and the symbols given.
SetTransitionExtends(o) ==
    o.hasSetAlphabet =>
        \A origin \in o.states, target \in o.states, g \in SymbolInputs :
            LET r == SetTransition(o, origin, target, StringInput(g))
            IN ~r.same => /\ r.ret.hasSetAlphabet
                          /\ r.ret.alphabet = o.alphabet \cup NewSymbolGroup(StringInput(g))

\* setAlphabet(x) stores x united with the symbols of all edges.
SetAlphabetStoresUnion(o, x) ==
    LET r == SetAlphabet(o, StringInput(x)).ret
    IN /\ r.hasSetAlphabet
       /\ r.alphabet = NewSymbolGroup(StringInput(x)) \cup AllSymbols(o)

\* Without an explicit alphabet the accessor gives the symbols of all edges.
UnsetIsUnion(o) == ~o.hasSetAlphabet => Alphabet(o) = AllSymbols(o)

\* C40: an explicit alphabet always covers the transitions: in every state
\* reached from a definition by the mutators, an explicit alphabet holds
\* every symbol of every edge; setTransition with new symbols extends the
\* explicit alphabet, setAlphabet(x) stores x united with the minimal
\* alphabet, and with no explicit alphabet the alphabet accessor returns
\* exactly the union of the symbol groups of all edges.
C40_AlphabetCoversTransitions ==
    /\ CoversTransitions(obj)
    /\ UnsetIsUnion(obj)
    /\ \A x \in AlphabetInputs : SetAlphabetStoresUnion(obj, x)
    /\ SetTransitionExtends(obj)

\* The parts of C40 that hold: the cover and the extension everywhere, the
\* accessor where there is an edge and no edge carries the visible-space
\* character, setAlphabet where no edge carries it and the argument is not
\* the space.
C40_ExceptMergedStrings ==
    /\ CoversTransitions(obj)
    /\ SetTransitionExtends(obj)
    /\ "obx" \notin AllSymbols(obj) =>
           /\ AllSymbols(obj) # {} => UnsetIsUnion(obj)
           /\ \A x \in AlphabetInputs \ {<<" ">>} : SetAlphabetStoresUnion(obj, x)

====
